---- MODULE Spec2Model ----
(***************************************************************************)
(* A step-level model of the pangua sorting library (src/src/lib.rs).      *)
(*                                                                         *)
(* One behaviour is one call of the generic entry point sort(slice,        *)
(* sorter): the caller builds a slice within the bounds, picks a strategy   *)
(* and calls sort.  Elements are key+tag pairs compared by key only (an    *)
(* element type whose Ord looks at the key); the tag is the position the   *)
(* element had in the input, so that stability is observable.              *)
(* Indices are 0-based as in the source; At(s, k) reads s at index k.      *)
(* Every index, sub-slice and unsigned subtraction is checked as the       *)
(* runtime checks it; a failed check leads to pc = "panic".                *)
(***************************************************************************)
EXTENDS Integers, Sequences, FiniteSets, TLC

\* Bounds of the model: inputs have at most MaxLen elements with keys 1..MaxKey.
MaxLen == 5
MaxKey == 3
\* The counter of BubbleSort's passes stops counting at PassCap (a sort of n
\* elements makes at most n + 1 passes, so the counter is exact).
PassCap == 8

\* The scenario of the repository's tests (lib.rs 296, 303, ...).
TestInput == <<5, 1, 4, 2, 3>>

Sorters == {"BubbleSort", "InsertionDumb", "InsertionSmart", "SelectionSort",
            "QuickSort", "HeapSort", "MergeSort", "StdSorter"}

VARIABLES
    sorter,            \* the strategy passed to sort
    input,             \* the slice as it was when sort was called
    slice,             \* the slice being sorted
    pc,                \* position in the code
    swapped,           \* BubbleSort: swapped
    i,                 \* BubbleSort: i ; InsertionSort: i
    unsorted,          \* InsertionSort, SelectionSort: unsorted
    smallest_in_rest,  \* SelectionSort: smallest_in_rest
    lo, hi,            \* quicksort: the sub-slice it was given is slice[lo..hi]
    left, right,       \* quicksort: cursors ; merge_sort: parameters
    stack,             \* callers' frames of quicksort / merge_sort
    start, mid, start2, end,   \* merge: markers ; heapify: start ; HeapSort::sort: end
    root, sd_end, sd_ret,      \* sift_down: root, its parameter end, and its caller
    swaps,             \* number of slice.swap calls made by SelectionSort
    passes             \* number of executions of BubbleSort's outer loop body

vars == <<sorter, input, slice, pc, swapped, i, unsorted, smallest_in_rest,
          lo, hi, left, right, stack, start, mid, start2, end,
          root, sd_end, sd_ret, swaps, passes>>

loopVars  == <<swapped, i, unsorted, smallest_in_rest>>
quickVars == <<lo, hi, left, right, stack>>
mergeVars == <<start, mid, start2>>
heapVars  == <<end, root, sd_end, sd_ret>>
counters  == <<swaps, passes>>

----------------------------------------------------------------------------
\* Elements and their total order (T: Ord): comparison looks at the key only.
Elem(k, t) == <<k, t>>
Key(e) == e[1]
Tag(e) == e[2]
Lt(a, b) == Key(a) < Key(b)
Le(a, b) == Key(a) <= Key(b)
Gt(a, b) == Key(a) > Key(b)

\* 0-based slice operations.
At(s, k) == s[k + 1]
InBounds(s, k) == k >= 0 /\ k < Len(s)

\* slice.swap(a, b); SwapLosing is a swap that forgets to save the element it
\* overwrites.
SwapLosing(s, a, b) == [s EXCEPT ![a + 1] = s[b + 1]]
Swap(s, a, b) == [s EXCEPT ![a + 1] = s[b + 1], ![b + 1] = s[a + 1]]

\* slice[a..=b].rotate_right(1): the last element of the range moves to its
\* front, the others move up by one.
RotateRight1(s, a, b) ==
    [k \in 1..Len(s) |->
        IF k - 1 = a /\ a <= b THEN s[b + 1]
        ELSE IF k - 1 > a /\ k - 1 <= b THEN s[k - 1]
        ELSE s[k]]

\* slice[a..=b] is a valid range of s.
RangeOk(s, a, b) == a >= 0 /\ a <= b + 1 /\ b < Len(s)

Keys(s) == [k \in 1..Len(s) |-> Key(s[k])]

\* The caller's slice of keys ks, each element tagged with its position.
Tagged(ks) == [k \in 1..Len(ks) |-> Elem(ks[k], k)]

\* Before the call: the caller has an empty slice and has chosen no strategy.
Init ==
    /\ sorter = "none"
    /\ input = <<>>
    /\ slice = <<>>
    /\ pc = "caller"
    /\ swapped = FALSE
    /\ i = 0 /\ unsorted = 0 /\ smallest_in_rest = 0
    /\ lo = 0 /\ hi = 0 /\ left = 0 /\ right = 0
    /\ stack = <<>>
    /\ start = 0 /\ mid = 0 /\ start2 = 0 /\ end = 0
    /\ root = 0 /\ sd_end = 0 /\ sd_ret = "none"
    /\ swaps = 0 /\ passes = 0

\* A failed bounds check, overflow check or assertion.
Panic == pc' = "panic" /\ UNCHANGED <<sorter, input, slice, loopVars, quickVars,
                                       mergeVars, heapVars, counters>>

----------------------------------------------------------------------------
\* The caller builds its slice: any keys within the bounds, up to MaxLen of
\* them ...
Push ==
    /\ pc = "caller"
    /\ Len(input) < MaxLen
    /\ \E k \in 1..MaxKey :
           /\ input' = Append(input, Elem(k, Len(input) + 1))
           /\ slice' = Append(slice, Elem(k, Len(slice) + 1))
    /\ UNCHANGED <<sorter, pc, loopVars, quickVars, mergeVars, heapVars, counters>>

\* ... or the slice of the repository's tests: let mut tings = vec![5, 1, 4, 2, 3]
UseTestInput ==
    /\ pc = "caller"
    /\ input = <<>>
    /\ input' = Tagged(TestInput)
    /\ slice' = Tagged(TestInput)
    /\ pc' = "call"
    /\ UNCHANGED <<sorter, loopVars, quickVars, mergeVars, heapVars, counters>>

EntryOf(s) ==
    CASE s = "BubbleSort"     -> "bubble_sort"
      [] s = "InsertionDumb"  -> "ins_sort"
      [] s = "InsertionSmart" -> "ins_sort"
      [] s = "SelectionSort"  -> "sel_sort"
      [] s = "QuickSort"      -> "quick_sort"
      [] s = "HeapSort"       -> "heap_sort"
      [] s = "MergeSort"      -> "merge_sort"
      [] s = "StdSorter"      -> "std_sort"

\* pub fn sort(slice, sorter): sorter.sort(slice), for the strategy the caller
\* passes.
sort ==
    /\ pc \in {"caller", "call"}
    /\ \E s \in Sorters :
           /\ sorter' = s
           /\ pc' = EntryOf(s)
    /\ UNCHANGED <<input, slice, loopVars, quickVars, mergeVars, heapVars, counters>>

----------------------------------------------------------------------------
\* BubbleSort

\* let mut swapped = true; BubbleSwappedInitFalse is the loop started with
\* swapped = false.
BubbleSwappedInitFalse == FALSE
BubbleSwappedInit == TRUE

\* slice[i] < slice[i - 1]; BubbleOutOfOrderLe is the comparison written <=.
BubbleOutOfOrderLe(a, b) == Le(a, b)
BubbleOutOfOrder(a, b) == Lt(a, b)

BubbleEnter ==
    /\ pc = "bubble_sort"
    /\ swapped' = BubbleSwappedInit
    /\ pc' = "bubble_while"
    /\ UNCHANGED <<sorter, input, slice, i, unsorted, smallest_in_rest, quickVars,
                   mergeVars, heapVars, counters>>

\* while swapped { swapped = false; for i in 1..slice.len() ...
BubbleWhile ==
    /\ pc = "bubble_while"
    /\ IF swapped
       THEN /\ swapped' = FALSE
            /\ i' = 1
            /\ passes' = IF passes < PassCap THEN passes + 1 ELSE passes
            /\ pc' = "bubble_for"
       ELSE /\ pc' = "done"
            /\ UNCHANGED <<swapped, i, passes>>
    /\ UNCHANGED <<sorter, input, slice, unsorted, smallest_in_rest, quickVars,
                   mergeVars, heapVars, swaps>>

\* one iteration of for i in 1..slice.len()
BubbleFor ==
    /\ pc = "bubble_for"
    /\ IF i < Len(slice)
       THEN IF ~InBounds(slice, i) \/ ~InBounds(slice, i - 1)
            THEN Panic
            ELSE /\ IF BubbleOutOfOrder(At(slice, i), At(slice, i - 1))
                    THEN slice' = Swap(slice, i, i - 1) /\ swapped' = TRUE
                    ELSE UNCHANGED <<slice, swapped>>
                 /\ i' = i + 1
                 /\ pc' = "bubble_for"
                 /\ UNCHANGED <<sorter, input, unsorted, smallest_in_rest, quickVars,
                                mergeVars, heapVars, counters>>
       ELSE /\ pc' = "bubble_while"
            /\ UNCHANGED <<sorter, input, slice, loopVars, quickVars,
                           mergeVars, heapVars, counters>>

----------------------------------------------------------------------------
\* InsertionSort { smart }

\* self.smart
Smart == sorter = "InsertionSmart"

\* slice[..unsorted].binary_search(&slice[unsorted]), Ok(i) | Err(i) => i.
\* The standard library returns the index of a matching element when there is
\* one (which one is unspecified when several match) and otherwise the index
\* where the element could be inserted to keep the order.  The operator gives
\* the set of indices the call can return.  BinarySearchUpper is a search that
\* returns the index past every element <= x instead.
BinarySearchUpper(s, n, x) ==
    {Cardinality({k \in 0..(n - 1) : Le(At(s, k), x)})}
BinarySearch(s, n, x) ==
    LET matches == {k \in 0..(n - 1) : Key(At(s, k)) = Key(x)}
    IN IF matches # {} THEN matches
       ELSE {Cardinality({k \in 0..(n - 1) : Lt(At(s, k), x)})}

InsertionEnter ==
    /\ pc = "ins_sort"
    /\ unsorted' = 1
    /\ pc' = "ins_for"
    /\ UNCHANGED <<sorter, input, slice, swapped, i, smallest_in_rest, quickVars,
                   mergeVars, heapVars, counters>>

\* for unsorted in 1..slice.len() { if !self.smart { let mut i = unsorted; ...
\*   } else { let i = match ...binary_search... }
InsertionFor ==
    /\ pc = "ins_for"
    /\ IF unsorted < Len(slice)
       THEN IF ~Smart
            THEN /\ i' = unsorted
                 /\ pc' = "ins_while"
                 /\ UNCHANGED <<sorter, input, slice, swapped, unsorted,
                                smallest_in_rest, quickVars, mergeVars, heapVars,
                                counters>>
            ELSE IF ~InBounds(slice, unsorted)
                 THEN Panic
                 ELSE /\ i' \in BinarySearch(slice, unsorted, At(slice, unsorted))
                      /\ pc' = "ins_rotate"
                      /\ UNCHANGED <<sorter, input, slice, swapped, unsorted,
                                     smallest_in_rest, quickVars, mergeVars,
                                     heapVars, counters>>
       ELSE /\ pc' = "done"
            /\ UNCHANGED <<sorter, input, slice, loopVars, quickVars, mergeVars,
                           heapVars, counters>>

\* one iteration of while i > 0 && slice[i - 1] > slice[i]
InsertionWhile ==
    /\ pc = "ins_while"
    /\ IF i > 0
       THEN IF ~InBounds(slice, i - 1) \/ ~InBounds(slice, i)
            THEN Panic
            ELSE IF Gt(At(slice, i - 1), At(slice, i))
                 THEN /\ slice' = Swap(slice, i - 1, i)
                      /\ i' = i - 1
                      /\ pc' = "ins_while"
                      /\ UNCHANGED <<sorter, input, swapped, unsorted,
                                     smallest_in_rest, quickVars, mergeVars,
                                     heapVars, counters>>
                 ELSE /\ unsorted' = unsorted + 1
                      /\ pc' = "ins_for"
                      /\ UNCHANGED <<sorter, input, slice, swapped, i,
                                     smallest_in_rest, quickVars, mergeVars,
                                     heapVars, counters>>
       ELSE /\ unsorted' = unsorted + 1
            /\ pc' = "ins_for"
            /\ UNCHANGED <<sorter, input, slice, swapped, i, smallest_in_rest,
                           quickVars, mergeVars, heapVars, counters>>

\* slice[i..=unsorted].rotate_right(1)
InsertionRotate ==
    /\ pc = "ins_rotate"
    /\ IF ~RangeOk(slice, i, unsorted)
       THEN Panic
       ELSE /\ slice' = RotateRight1(slice, i, unsorted)
            /\ unsorted' = unsorted + 1
            /\ pc' = "ins_for"
            /\ UNCHANGED <<sorter, input, swapped, i, smallest_in_rest, quickVars,
                           mergeVars, heapVars, counters>>

----------------------------------------------------------------------------
\* SelectionSort

\* slice[unsorted..].iter().enumerate().min_by_key(|t| t.1).map(|t| unsorted + t.0):
\* the index of the minimum of the suffix, the first one when several are
\* equally minimum.  MaxIndex is the same with max_by_key (the first maximum).
MaxIndex(s, from) ==
    CHOOSE m \in from..(Len(s) - 1) :
        /\ \A k \in from..(Len(s) - 1) : Le(At(s, k), At(s, m))
        /\ \A k \in from..(m - 1) : Lt(At(s, k), At(s, m))
MinIndex(s, from) ==
    CHOOSE m \in from..(Len(s) - 1) :
        /\ \A k \in from..(Len(s) - 1) : Le(At(s, m), At(s, k))
        /\ \A k \in from..(m - 1) : Lt(At(s, m), At(s, k))

\* if unsorted != smallest_in_rest; SelectionAlwaysSwap is the swap made
\* without the test.
SelectionAlwaysSwap(a, b) == TRUE
SelectionMustSwap(a, b) == a # b

SelectionEnter ==
    /\ pc = "sel_sort"
    /\ unsorted' = 0
    /\ pc' = "sel_for"
    /\ UNCHANGED <<sorter, input, slice, swapped, i, smallest_in_rest, quickVars,
                   mergeVars, heapVars, counters>>

\* for unsorted in 0..slice.len() { let smallest_in_rest = ... }
\* (the suffix slice[unsorted..] is never empty inside the loop, so expect
\* does not fail)
SelectionFor ==
    /\ pc = "sel_for"
    /\ IF unsorted < Len(slice)
       THEN /\ smallest_in_rest' = MinIndex(slice, unsorted)
            /\ pc' = "sel_swap"
       ELSE /\ pc' = "done"
            /\ UNCHANGED smallest_in_rest
    /\ UNCHANGED <<sorter, input, slice, swapped, i, unsorted, quickVars,
                   mergeVars, heapVars, counters>>

\* if unsorted != smallest_in_rest { slice.swap(unsorted, smallest_in_rest) }
SelectionSwap ==
    /\ pc = "sel_swap"
    /\ IF SelectionMustSwap(unsorted, smallest_in_rest)
       THEN IF ~InBounds(slice, unsorted) \/ ~InBounds(slice, smallest_in_rest)
            THEN Panic
            ELSE /\ slice' = Swap(slice, unsorted, smallest_in_rest)
                 /\ swaps' = swaps + 1
                 /\ unsorted' = unsorted + 1
                 /\ pc' = "sel_for"
                 /\ UNCHANGED <<sorter, input, swapped, i, smallest_in_rest,
                                quickVars, mergeVars, heapVars, passes>>
       ELSE /\ unsorted' = unsorted + 1
            /\ pc' = "sel_for"
            /\ UNCHANGED <<sorter, input, slice, swapped, i, smallest_in_rest,
                           quickVars, mergeVars, heapVars, counters>>

----------------------------------------------------------------------------
\* QuickSort.  quicksort works on a sub-slice of the caller's slice; lo and hi
\* are its bounds in the whole slice, and the code's indices are relative to lo.
QLen == hi - lo
QAt(k) == At(slice, lo + k)
QIn(k) == k >= 0 /\ k < QLen

\* let mut right = rest.len() - 1; QuickRightInitShort starts one index short.
QuickRightInitShort(restLen) == restLen - 2
QuickRightInit(restLen) == restLen - 1

\* assert!(left.last() <= right.first()), for the halves of split_at_mut(left):
\* an Option comparison, None being less than every Some.
AssertHolds ==
    IF left = 0 THEN TRUE
    ELSE IF left >= QLen THEN FALSE
    ELSE Le(QAt(left - 1), QAt(left))

\* QuickSort::sort: quicksort(slice)
QuickSortEnter ==
    /\ pc = "quick_sort"
    /\ lo' = 0
    /\ hi' = Len(slice)
    /\ pc' = "qs_entry"
    /\ UNCHANGED <<sorter, input, slice, loopVars, left, right, stack, mergeVars,
                   heapVars, counters>>

\* match slice.len() { 0 | 1 => return, 2 => { ... return } _ => {} }
\* let (pivot, rest) = slice.split_first_mut(); left = 0; right = rest.len() - 1
QuickEntry ==
    /\ pc = "qs_entry"
    /\ IF QLen <= 1
       THEN /\ pc' = "qs_return"
            /\ UNCHANGED <<slice, left, right>>
       ELSE IF QLen = 2
       THEN /\ slice' = IF Gt(QAt(0), QAt(1)) THEN Swap(slice, lo, lo + 1) ELSE slice
            /\ pc' = "qs_return"
            /\ UNCHANGED <<left, right>>
       ELSE /\ left' = 0
            /\ right' = QuickRightInit(QLen - 1)
            /\ pc' = IF QuickRightInit(QLen - 1) < 0 THEN "panic" ELSE "qs_loop"
            /\ UNCHANGED slice
    /\ UNCHANGED <<sorter, input, loopVars, lo, hi, stack, mergeVars, heapVars,
                   counters>>

\* one iteration of while left <= right; rest[k] is slice[k + 1], pivot is slice[0]
QuickLoop ==
    /\ pc = "qs_loop"
    /\ IF left <= right
       THEN IF ~QIn(left + 1) \/ right < 0
            THEN Panic
            ELSE IF Le(QAt(left + 1), QAt(0))
            THEN /\ left' = left + 1
                 /\ pc' = "qs_loop"
                 /\ UNCHANGED <<sorter, input, slice, loopVars, lo, hi, right, stack,
                                mergeVars, heapVars, counters>>
            ELSE IF ~QIn(right + 1)
            THEN Panic
            ELSE IF Gt(QAt(right + 1), QAt(0))
            THEN /\ IF right = 0
                    THEN pc' = "qs_place" /\ UNCHANGED right
                    ELSE pc' = "qs_loop" /\ right' = right - 1
                 /\ UNCHANGED <<sorter, input, slice, loopVars, lo, hi, left, stack,
                                mergeVars, heapVars, counters>>
            ELSE /\ slice' = Swap(slice, lo + 1 + left, lo + 1 + right)
                 /\ left' = left + 1
                 /\ IF right = 0
                    THEN pc' = "qs_place" /\ UNCHANGED right
                    ELSE pc' = "qs_loop" /\ right' = right - 1
                 /\ UNCHANGED <<sorter, input, loopVars, lo, hi, stack, mergeVars,
                                heapVars, counters>>
       ELSE /\ pc' = "qs_place"
            /\ UNCHANGED <<sorter, input, slice, loopVars, quickVars, mergeVars,
                           heapVars, counters>>

\* slice.swap(0, left); let (left, right) = slice.split_at_mut(left)
QuickPlace ==
    /\ pc = "qs_place"
    /\ IF ~QIn(left) \/ left > QLen
       THEN Panic
       ELSE /\ slice' = Swap(slice, lo, lo + left)
            /\ pc' = "qs_assert"
            /\ UNCHANGED <<sorter, input, loopVars, quickVars, mergeVars, heapVars,
                           counters>>

\* assert!(left.last() <= right.first()); quicksort(left)
QuickAssert ==
    /\ pc = "qs_assert"
    /\ IF ~AssertHolds
       THEN Panic
       ELSE /\ stack' = Append(stack, [ret |-> "qs_second", lo |-> lo, hi |-> hi,
                                       left |-> left])
            /\ hi' = lo + left
            /\ pc' = "qs_entry"
            /\ UNCHANGED <<sorter, input, slice, loopVars, lo, left, right, mergeVars,
                           heapVars, counters>>

\* quicksort(&mut right[1..])
QuickSecond ==
    /\ pc = "qs_second"
    /\ IF left + 1 > QLen
       THEN Panic
       ELSE /\ stack' = Append(stack, [ret |-> "qs_return", lo |-> lo, hi |-> hi,
                                       left |-> left])
            /\ lo' = lo + left + 1
            /\ pc' = "qs_entry"
            /\ UNCHANGED <<sorter, input, slice, loopVars, hi, left, right, mergeVars,
                           heapVars, counters>>

\* return from quicksort, to its caller's next statement
QuickReturn ==
    /\ pc = "qs_return"
    /\ IF stack = <<>>
       THEN /\ pc' = "done"
            /\ UNCHANGED <<lo, hi, left, stack>>
       ELSE LET f == stack[Len(stack)]
            IN /\ stack' = SubSeq(stack, 1, Len(stack) - 1)
               /\ lo' = f.lo
               /\ hi' = f.hi
               /\ left' = f.left
               /\ pc' = f.ret
    /\ UNCHANGED <<sorter, input, slice, loopVars, right, mergeVars, heapVars,
                   counters>>

----------------------------------------------------------------------------
\* HeapSort

\* let parent = |i| (i - 1) / 2
parent(k) == (k - 1) \div 2
\* let left_child = |i| 2 * i + 1; left_child_right is the right child's index.
left_child_right(k) == 2 * k + 2
left_child(k) == 2 * k + 1

\* if slice.is_empty() || slice.len() == 1; HeapTrivialNoEmpty is the test
\* without is_empty.
HeapTrivialNoEmpty(s) == Len(s) = 1
HeapTrivial(s) == Len(s) = 0 \/ Len(s) = 1

\* HeapSort::sort up to the call of heapify, and heapify up to its loop:
\* let mut start = parent(slice.len() - 1) as i64
HeapSortEnter ==
    /\ pc = "heap_sort"
    /\ IF HeapTrivial(slice)
       THEN /\ pc' = "done"
            /\ UNCHANGED <<sorter, input, slice, loopVars, quickVars, mergeVars,
                           heapVars, counters>>
       ELSE IF Len(slice) < 1 \/ Len(slice) - 1 < 1
       THEN Panic
       ELSE /\ start' = parent(Len(slice) - 1)
            /\ pc' = "heapify_while"
            /\ UNCHANGED <<sorter, input, slice, loopVars, quickVars, mid, start2,
                           heapVars, counters>>

\* while start >= 0 { HeapSort::sift_down(slice, start as usize, slice.len() - 1)
\* and, after the loop, let mut end = slice.len() - 1
HeapifyWhile ==
    /\ pc = "heapify_while"
    /\ IF Len(slice) < 1
       THEN Panic
       ELSE /\ IF start >= 0
               THEN /\ root' = start
                    /\ sd_end' = Len(slice) - 1
                    /\ sd_ret' = "heapify_next"
                    /\ pc' = "sift_down"
                    /\ UNCHANGED end
               ELSE /\ end' = Len(slice) - 1
                    /\ pc' = "heap_while"
                    /\ UNCHANGED <<root, sd_end, sd_ret>>
            /\ UNCHANGED <<sorter, input, slice, loopVars, quickVars, mergeVars,
                           counters>>

\* start -= 1
HeapifyNext ==
    /\ pc = "heapify_next"
    /\ start' = start - 1
    /\ pc' = "heapify_while"
    /\ UNCHANGED <<sorter, input, slice, loopVars, quickVars, mid, start2, heapVars,
                   counters>>

\* one iteration of sift_down's while left_child(root) <= end, or its return
SiftDown ==
    /\ pc = "sift_down"
    /\ IF left_child(root) <= sd_end
       THEN LET child == left_child(root)
                swap1 == IF Lt(At(slice, root), At(slice, child)) THEN child ELSE root
                swap2 == IF child + 1 <= sd_end
                            /\ Lt(At(slice, swap1), At(slice, child + 1))
                         THEN child + 1 ELSE swap1
            IN IF \/ ~InBounds(slice, root)
                  \/ ~InBounds(slice, child)
                  \/ (child + 1 <= sd_end /\ ~InBounds(slice, child + 1))
               THEN Panic
               ELSE IF swap2 = root
               THEN /\ pc' = sd_ret
                    /\ UNCHANGED <<sorter, input, slice, loopVars, quickVars,
                                   mergeVars, heapVars, counters>>
               ELSE /\ slice' = Swap(slice, root, swap2)
                    /\ root' = swap2
                    /\ pc' = "sift_down"
                    /\ UNCHANGED <<sorter, input, loopVars, quickVars, mergeVars,
                                   end, sd_end, sd_ret, counters>>
       ELSE /\ pc' = sd_ret
            /\ UNCHANGED <<sorter, input, slice, loopVars, quickVars, mergeVars,
                           heapVars, counters>>

\* while end > 0 { slice.swap(0, end); end -= 1; HeapSort::sift_down(slice, 0, end) }
HeapWhile ==
    /\ pc = "heap_while"
    /\ IF end > 0
       THEN IF ~InBounds(slice, 0) \/ ~InBounds(slice, end)
            THEN Panic
            ELSE /\ slice' = Swap(slice, 0, end)
                 /\ end' = end - 1
                 /\ root' = 0
                 /\ sd_end' = end - 1
                 /\ sd_ret' = "heap_while"
                 /\ pc' = "sift_down"
                 /\ UNCHANGED <<sorter, input, loopVars, quickVars, mergeVars,
                                counters>>
       ELSE /\ pc' = "done"
            /\ UNCHANGED <<sorter, input, slice, loopVars, quickVars, mergeVars,
                           heapVars, counters>>

----------------------------------------------------------------------------
\* MergeSort

\* slice[start] <= slice[start2]; MergeKeepsLeftStrict is the comparison
\* written <.
MergeKeepsLeftStrict(a, b) == Lt(a, b)
MergeKeepsLeft(a, b) == Le(a, b)

\* MergeSort::sort
MergeSortEnter ==
    /\ pc = "merge_sort"
    /\ IF Len(slice) = 0 \/ Len(slice) = 1
       THEN /\ pc' = "done"
            /\ UNCHANGED <<left, right>>
       ELSE /\ left' = 0
            /\ right' = Len(slice) - 1
            /\ pc' = "ms_entry"
    /\ UNCHANGED <<sorter, input, slice, loopVars, lo, hi, stack, mergeVars, heapVars,
                   counters>>

\* if left < right { let mid = (left + right) / 2; Self::merge_sort(slice, left, mid)
MergeSortEntry ==
    /\ pc = "ms_entry"
    /\ IF left < right
       THEN LET m == (left + right) \div 2
            IN /\ stack' = Append(stack, [ret |-> "ms_second", left |-> left,
                                          right |-> right, mid |-> m])
               /\ mid' = m
               /\ right' = m
               /\ pc' = "ms_entry"
       ELSE /\ pc' = "ms_return"
            /\ UNCHANGED <<stack, mid, right>>
    /\ UNCHANGED <<sorter, input, slice, loopVars, lo, hi, left, start, start2,
                   heapVars, counters>>

\* Self::merge_sort(slice, mid + 1, right)
MergeSortSecond ==
    /\ pc = "ms_second"
    /\ stack' = Append(stack, [ret |-> "ms_merge", left |-> left, right |-> right,
                               mid |-> mid])
    /\ left' = mid + 1
    /\ pc' = "ms_entry"
    /\ UNCHANGED <<sorter, input, slice, loopVars, lo, hi, right, mergeVars, heapVars,
                   counters>>

\* Self::merge(slice, left, mid, right): let mut start2 = mid + 1;
\* if slice[mid] <= slice[start2] { return }
MergeEnter ==
    /\ pc = "ms_merge"
    /\ IF ~InBounds(slice, mid) \/ ~InBounds(slice, mid + 1)
       THEN Panic
       ELSE /\ start' = left
            /\ start2' = mid + 1
            /\ end' = right
            /\ pc' = IF Le(At(slice, mid), At(slice, mid + 1))
                     THEN "ms_return" ELSE "merge_while"
            /\ UNCHANGED <<sorter, input, slice, loopVars, quickVars, mid, root,
                           sd_end, sd_ret, counters>>

\* one iteration of while start <= mid && start2 <= end, or the return of merge
\* (and with it of the merge_sort that called it)
MergeWhile ==
    /\ pc = "merge_while"
    /\ IF start <= mid /\ start2 <= end
       THEN IF ~InBounds(slice, start) \/ ~InBounds(slice, start2)
            THEN Panic
            ELSE IF MergeKeepsLeft(At(slice, start), At(slice, start2))
            THEN /\ start' = start + 1
                 /\ pc' = "merge_while"
                 /\ UNCHANGED <<sorter, input, slice, loopVars, quickVars, mid,
                                start2, heapVars, counters>>
            ELSE IF ~RangeOk(slice, start, start2)
            THEN Panic
            ELSE /\ slice' = RotateRight1(slice, start, start2)
                 /\ start' = start + 1
                 /\ mid' = mid + 1
                 /\ start2' = start2 + 1
                 /\ pc' = "merge_while"
                 /\ UNCHANGED <<sorter, input, loopVars, quickVars, heapVars,
                                counters>>
       ELSE /\ pc' = "ms_return"
            /\ UNCHANGED <<sorter, input, slice, loopVars, quickVars, mergeVars,
                           heapVars, counters>>

\* return from merge_sort, to its caller's next statement
MergeSortReturn ==
    /\ pc = "ms_return"
    /\ IF stack = <<>>
       THEN /\ pc' = "done"
            /\ UNCHANGED <<left, right, mid, stack>>
       ELSE LET f == stack[Len(stack)]
            IN /\ stack' = SubSeq(stack, 1, Len(stack) - 1)
               /\ left' = f.left
               /\ right' = f.right
               /\ mid' = f.mid
               /\ pc' = f.ret
    /\ UNCHANGED <<sorter, input, slice, loopVars, lo, hi, start, start2, heapVars,
                   counters>>

----------------------------------------------------------------------------
\* StdSorter: slice.sort(), the standard library's sort: stable, ascending.
\* The element at position k goes to the position given by the number of
\* elements that are less than it, or equal to it and before it.
StableRank(s, k) ==
    Cardinality({j \in 1..Len(s) : Lt(s[j], s[k]) \/ (Key(s[j]) = Key(s[k]) /\ j < k)})

StableSorted(s) ==
    [p \in 1..Len(s) |-> s[CHOOSE k \in 1..Len(s) : StableRank(s, k) = p - 1]]

StdSort ==
    /\ pc = "std_sort"
    /\ slice' = StableSorted(slice)
    /\ pc' = "done"
    /\ UNCHANGED <<sorter, input, loopVars, quickVars, mergeVars, heapVars, counters>>

----------------------------------------------------------------------------
Next ==
    \/ Push \/ UseTestInput \/ sort
    \/ BubbleEnter \/ BubbleWhile \/ BubbleFor
    \/ InsertionEnter \/ InsertionFor \/ InsertionWhile \/ InsertionRotate
    \/ SelectionEnter \/ SelectionFor \/ SelectionSwap
    \/ QuickSortEnter \/ QuickEntry \/ QuickLoop \/ QuickPlace \/ QuickAssert
    \/ QuickSecond \/ QuickReturn
    \/ HeapSortEnter \/ HeapifyWhile \/ HeapifyNext \/ SiftDown \/ HeapWhile
    \/ MergeSortEnter \/ MergeSortEntry \/ MergeSortSecond \/ MergeEnter
    \/ MergeWhile \/ MergeSortReturn
    \/ StdSort

Spec == Init /\ [][Next]_vars

\* A sort call is one sequential computation that keeps running until it
\* returns or panics.
FairSpec == Spec /\ WF_vars(Next)

----------------------------------------------------------------------------
\* Properties

IsSorted(s) == \A a, b \in 1..Len(s) : a < b => Key(s[a]) <= Key(s[b])

\* Equal keys are in the order of their tags, i.e. of their input positions.
IsStable(s) ==
    \A a, b \in 1..Len(s) : (a < b /\ Key(s[a]) = Key(s[b])) => Tag(s[a]) < Tag(s[b])

\* s holds exactly the elements of t (which are pairwise distinct by their
\* tags), each once, and so the same number of every key.
IsPermutation(s, t) ==
    /\ Len(s) = Len(t)
    /\ {s[k] : k \in 1..Len(s)} = {t[k] : k \in 1..Len(t)}
    /\ \A v \in {Key(t[k]) : k \in 1..Len(t)} \cup {Key(s[k]) : k \in 1..Len(s)} :
           Cardinality({k \in 1..Len(s) : Key(s[k]) = v})
               = Cardinality({k \in 1..Len(t) : Key(t[k]) = v})

\* C1: when sort returns, whatever the strategy, the slice is in non-decreasing
\* order, and the input [5, 1, 4, 2, 3] has become [1, 2, 3, 4, 5].
C1_SortedOnReturn ==
    pc = "done" =>
        /\ IsSorted(slice)
        /\ (Keys(input) = TestInput => Keys(slice) = <<1, 2, 3, 4, 5>>)

C1_Witness ==
    /\ pc = "done" /\ sorter = "HeapSort"
    /\ Keys(input) = TestInput /\ Keys(slice) = <<1, 2, 3, 4, 5>>

\* C2: in every state of every strategy's sort, intermediate ones included, the
\* slice has the length of the input and holds the same multiset of elements.
C2_PermutationAlways == IsPermutation(slice, input)

C2_Witness ==
    /\ pc = "merge_while" /\ slice # input /\ ~IsSorted(slice)
    /\ \E k \in 1..Len(slice) : \E m \in 1..Len(slice) :
           k # m /\ Key(slice[k]) = Key(slice[m])

\* C3: every sort call terminates: under the fairness of a running sequential
\* computation, every behaviour reaches the return of sort.
C3_Terminates == <>(pc = "done")

C3_Witness ==
    /\ pc = "done" /\ sorter = "QuickSort" /\ Len(input) >= 3 /\ stack = <<>>

\* C4: no step of any strategy fails a bounds check, a range check, an unsigned
\* subtraction or the assertion, on any input, the empty one included.
C4_NoPanic == pc # "panic"

C4_Witness ==
    \/ pc = "done" /\ sorter = "HeapSort" /\ Len(input) = 0
    \/ pc = "qs_place" /\ right = 0 /\ left = 0

\* C5: BubbleSort and MergeSort are stable: on return, elements with equal keys
\* are in the order they had in the input.
C5_StableOnReturn ==
    (pc = "done" /\ sorter \in {"BubbleSort", "MergeSort"}) => IsStable(slice)

C5_Witness ==
    /\ pc = "done" /\ sorter = "MergeSort"
    /\ Keys(input) = <<2, 2, 1, 1>>
    /\ slice = <<Elem(1, 3), Elem(1, 4), Elem(2, 1), Elem(2, 2)>>

C7_Partitioned ==
    pc = "qs_assert" =>
        /\ left >= 0 /\ left < QLen
        /\ \A k \in 0..(left - 1) : Le(QAt(k), QAt(left))
        /\ \A k \in (left + 1)..(QLen - 1) : Le(QAt(left), QAt(k))
        /\ AssertHolds

C7_Witness ==
    /\ pc = "qs_assert" /\ left > 0 /\ left < QLen - 1
    /\ Lt(QAt(left - 1), QAt(left)) /\ Lt(QAt(left), QAt(left + 1))

\* The elements of the sorted prefix equal to the element being inserted.
EqualInPrefix == {k \in 0..(unsorted - 1) : Key(At(slice, k)) = Key(At(slice, unsorted))}

\* C8 as stated: the smart variant's insertion index is past every element of
\* the prefix equal to the new one, and so the variant is stable.
C8_InsertsAfterEquals ==
    /\ pc = "ins_rotate" => \A k \in EqualInPrefix : k < i
    /\ (pc = "done" /\ sorter = "InsertionSmart") => IsStable(slice)

\* C8 amended: when the prefix holds elements equal to the new one the insertion
\* index is the index of one of them (so the new element goes before it);
\* otherwise it is the index that keeps the prefix ordered.
C8_InsertsAtAnEqual ==
    pc = "ins_rotate" =>
        IF EqualInPrefix # {}
        THEN i \in EqualInPrefix
        ELSE /\ i >= 0 /\ i <= unsorted
             /\ \A k \in 0..(i - 1) : Lt(At(slice, k), At(slice, unsorted))
             /\ \A k \in i..(unsorted - 1) : Gt(At(slice, k), At(slice, unsorted))

C8_Witness == pc = "ins_rotate" /\ Cardinality(EqualInPrefix) >= 2

\* C9: SelectionSort makes at most n - 1 swaps on n >= 1 elements and none on
\* the empty slice, and the index it selects is the first minimum of the suffix.
C9_SelectionSwaps ==
    /\ swaps <= (IF Len(input) = 0 THEN 0 ELSE Len(input) - 1)
    /\ pc = "sel_swap" =>
           /\ smallest_in_rest >= unsorted /\ smallest_in_rest < Len(slice)
           /\ \A k \in unsorted..(Len(slice) - 1) :
                  Le(At(slice, smallest_in_rest), At(slice, k))
           /\ \A k \in unsorted..(smallest_in_rest - 1) :
                  Lt(At(slice, smallest_in_rest), At(slice, k))

C9_Witness ==
    /\ pc = "done" /\ sorter = "SelectionSort"
    /\ Len(input) >= 3 /\ swaps = Len(input) - 1

\* C10 as stated: BubbleSort's outer loop body runs zero times on an empty or
\* single-element slice and once on a sorted slice of two or more elements.
C10_ZeroPasses ==
    (pc = "done" /\ sorter = "BubbleSort") =>
        /\ Len(input) <= 1 => passes = 0
        /\ (Len(input) >= 2 /\ IsSorted(input)) => passes = 1

\* C10 amended: BubbleSort returns after a pass without a swap (a pass that
\* found every neighbouring pair in order) and goes on after a pass with one,
\* and its outer loop body runs exactly once exactly when the input is already
\* sorted (the empty and the single-element slice included), never more than
\* n + 1 times.
C10_OnePass ==
    /\ (pc = "bubble_while" /\ passes >= 1 /\ ~swapped) => IsSorted(slice)
    /\ (pc = "done" /\ sorter = "BubbleSort") =>
           /\ ~swapped
           /\ passes >= 1 /\ passes <= Len(input) + 1
           /\ passes = 1 <=> IsSorted(input)

C10_Witness ==
    /\ pc = "done" /\ sorter = "BubbleSort" /\ Len(input) = 0 /\ passes = 1

====
